---- MODULE Spec2Model ----
(***************************************************************************)
(* A model of src/package.cpp of pcurses: the Package value object, built  *)
(* from a libalpm package handle and the local database, its accessors,    *)
(* its two mutators, and the helpers trimstr and size2str.                  *)
(*                                                                         *)
(* A std::string is a sequence of one-character strings.  A const char *   *)
(* is a sequence of length at most one: NULL is <<>>, and a pointer to the *)
(* text s is <<s>>.                                                        *)
(***************************************************************************)
EXTENDS Integers, Sequences, FiniteSets, TLC

VARIABLES
    pc,       \* position of the caller: which call runs next
    pkg,      \* the alpm_pkg_t handed to the constructor (library data)
    localdb,  \* the alpm_db_t handed to the constructor (library data)
    p,        \* the fields of the Package object
    vc,       \* what alpm_pkg_vercmp returned at line 69 ("none" before)
    held,     \* the alpm_list_t handles the constructor holds and has not freed
    events,   \* the list calls the constructor has made, in order
    built,    \* the data members as they were when the constructor returned
    arg,      \* the argument of trimstr or size2str when one is called on its own
    ret       \* what the last call returned or raised

vars == <<pc, pkg, localdb, p, vc, held, events, built, arg, ret>>

-----------------------------------------------------------------------------
(* const char * and std::string *)

NULL == <<>>

Ptr(s) == <<s>>

IsNull(c) == c = NULL

Deref(c) == c[1]

\* the characters the strings of the model are made of
Whitespace == {" ", "\t", "\n"}

Letters == {"a", "b"}

Chars == Whitespace \cup Letters

\* longest text handed to trimstr
MaxLen == 4

RECURSIVE StringsUpTo(_)
StringsUpTo(n) ==
    IF n = 0 THEN {<<>>}
    ELSE LET shorter == StringsUpTo(n - 1)
         IN  shorter \cup {Append(s, c) : s \in {t \in shorter : Len(t) = n - 1}, c \in Chars}

\* every const char * trimstr is tried on
CStrings == {NULL} \cup {Ptr(s) : s \in StringsUpTo(MaxLen)}

-----------------------------------------------------------------------------
(* std::string members used by trimstr; positions count from 1, npos is 0 *)

npos == 0

find_first_not_of(str, set) ==
    LET hits == {i \in 1..Len(str) : str[i] \notin set}
    IN  IF hits = {} THEN npos ELSE CHOOSE i \in hits : \A j \in hits : i <= j

find_last_not_of(str, set) ==
    LET hits == {i \in 1..Len(str) : str[i] \notin set}
    IN  IF hits = {} THEN npos ELSE CHOOSE i \in hits : \A j \in hits : i >= j

substr(str, pos, n) == SubSeq(str, pos, pos + n - 1)

\* a slip in the length handed to substr: the last kept character is lost
trimstr_short(c) ==
    IF IsNull(c) THEN <<>>
    ELSE LET str == Deref(c)
             startpos == find_first_not_of(str, Whitespace)
             endpos == find_last_not_of(str, Whitespace)
         IN  IF startpos = npos \/ endpos = npos THEN <<>>
             ELSE substr(str, startpos, endpos - startpos)

\* Package::trimstr
trimstr(c) ==
    IF IsNull(c) THEN <<>>
    ELSE LET str == Deref(c)
             startpos == find_first_not_of(str, Whitespace)
             endpos == find_last_not_of(str, Whitespace)
         IN  IF startpos = npos \/ endpos = npos THEN <<>>
             ELSE substr(str, startpos, endpos - startpos + 1)

-----------------------------------------------------------------------------
(* Byte counts.  An off_t is written in base 1024, least significant digit  *)
(* first and without high zero digits (0 is <<>>): d[i] counts 1024^(i-1).  *)
(* TLC's integers are 32 bits wide and an off_t is 64, so the counts of the  *)
(* terabyte range are only representable this way.                          *)

\* the divisor 1024.0 of lines 96 and 97, and the base the counts are written in
K == 1024

\* significand width of the IEEE single precision `float` of line 90
FloatBits == 24

RECURSIVE Pow2(_)
Pow2(n) == IF n = 0 THEN 1 ELSE 2 * Pow2(n - 1)

HalfK == K \div 2

\* bits per base-1024 digit
DigitBits == CHOOSE b \in 1..16 : Pow2(b) = K

\* number of significant bits of a digit
BitLen(n) == CHOOSE b \in 0..DigitBits : n < Pow2(b) /\ (b = 0 \/ n >= Pow2(b - 1))

RECURSIVE Norm(_)
Norm(d) == IF d = <<>> \/ d[Len(d)] # 0 THEN d ELSE Norm(SubSeq(d, 1, Len(d) - 1))

\* some digit below position i (exclusive bound i + 1) is not zero
LowNonZero(d, i) == \E j \in 1..i : j <= Len(d) /\ d[j] # 0

DigitAt(d, i) == IF i >= 1 /\ i <= Len(d) THEN d[i] ELSE 0

\* the count d is greater than 1024^j  (d without high zeros)
GreaterThanPow(d, j) ==
    \/ Len(d) > j + 1
    \/ Len(d) = j + 1 /\ (d[j + 1] > 1 \/ LowNonZero(d, j))

\* 1024^j
PowK(j) == [i \in 1..(j + 1) |-> IF i = j + 1 THEN 1 ELSE 0]

\* d + v * 1024^(i-1), for v <= 1024
RECURSIVE AddAt(_, _, _)
AddAt(d, i, v) ==
    IF v = 0 THEN d
    ELSE IF i > Len(d) THEN Append(d, v)
    ELSE LET s == d[i] + v
         IN  IF s < K THEN [d EXCEPT ![i] = s]
             ELSE AddAt([d EXCEPT ![i] = s - K], i + 1, 1)

\* the integer value of digits i.. of d (only used where it fits 31 bits)
RECURSIVE ValueFrom(_, _)
ValueFrom(d, i) == IF i > Len(d) THEN 0 ELSE d[i] + K * ValueFrom(d, i + 1)

\* d times a small factor
RECURSIVE TimesFrom(_, _, _, _)
TimesFrom(d, f, i, carry) ==
    IF i > Len(d) THEN (IF carry = 0 THEN <<>> ELSE <<carry % K>> \o TimesFrom(d, f, i, carry \div K))
    ELSE LET t == d[i] * f + carry
         IN  <<t % K>> \o TimesFrom(d, f, i + 1, t \div K)

Times(d, f) == Norm(TimesFrom(d, f, 1, 0))

\* `float fsize = size`: the off_t rounded to the nearest value with a 24-bit
\* significand, ties to the even significand.  The result is again an integer.
ToFloat(d) ==
    IF d = <<>> THEN d
    ELSE LET n == Len(d)
             total == DigitBits * (n - 1) + BitLen(d[n])
         IN  IF total <= FloatBits THEN d
             ELSE LET drop == total - FloatBits
                      q == drop \div DigitBits
                      r == drop % DigitBits
                      low == d[q + 1] % Pow2(r)
                      above == IF r >= 1
                               THEN low > Pow2(r - 1) \/ (low = Pow2(r - 1) /\ LowNonZero(d, q))
                               ELSE d[q] > HalfK \/ (d[q] = HalfK /\ LowNonZero(d, q - 1))
                      tie == IF r >= 1
                             THEN low = Pow2(r - 1) /\ ~LowNonZero(d, q)
                             ELSE d[q] = HalfK /\ ~LowNonZero(d, q - 1)
                      odd == (d[q + 1] \div Pow2(r)) % 2 = 1
                      trunc == [i \in 1..n |-> IF i <= q THEN 0
                                               ELSE IF i = q + 1 THEN d[i] - low ELSE d[i]]
                  IN  IF above \/ (tie /\ odd) THEN AddAt(trunc, q + 1, Pow2(r)) ELSE trunc

-----------------------------------------------------------------------------
(* Package::size2str.  After `currentunit` divisions the float fsize is     *)
(* exactly num / 1024^div: dividing a float by 1024.0 only lowers its       *)
(* exponent, and the values stay far above the subnormal range.            *)

units == << <<"B">>, <<"K", "B">>, <<"M", "B">>, <<"G", "B">>, <<"T", "B">> >>

unitssize == Len(units)

Float(num, div) == [num |-> num, div |-> div]

\* fsize > 1024.0
GreaterThanK(fsize) == GreaterThanPow(fsize.num, fsize.div + 1)

\* fsize /= 1024.0
DivideByK(fsize) == [fsize EXCEPT !.div = @ + 1]

\* the loop with >= for >: an exact 1024 is promoted to the next unit
RECURSIVE size2str_loop_ge(_, _)
size2str_loop_ge(fsize, currentunit) ==
    IF (GreaterThanK(fsize) \/ fsize.num = PowK(fsize.div + 1))
       /\ currentunit < unitssize - 1
    THEN size2str_loop_ge(DivideByK(fsize), currentunit + 1)
    ELSE [fsize |-> fsize, currentunit |-> currentunit]

\* the while loop of lines 96-99; yields the locals it ends with
RECURSIVE size2str_loop(_, _)
size2str_loop(fsize, currentunit) ==
    IF GreaterThanK(fsize) /\ currentunit < unitssize - 1
    THEN size2str_loop(DivideByK(fsize), currentunit + 1)
    ELSE [fsize |-> fsize, currentunit |-> currentunit]

\* fsize in hundredths, as std::fixed << std::setprecision(2) rounds it: to the
\* nearest hundredth of the exact binary value, a tie to the even hundredth
Hundredths(fsize) ==
    LET g == Times(fsize.num, 100)
        k == fsize.div
        hi == ValueFrom(g, k + 1)
        top == DigitAt(g, k)
        above == k >= 1 /\ (top > HalfK \/ (top = HalfK /\ LowNonZero(g, k - 1)))
        tie == k >= 1 /\ top = HalfK /\ ~LowNonZero(g, k - 1)
    IN  IF above \/ (tie /\ hi % 2 = 1) THEN hi + 1 ELSE hi

DigitChar(n) == <<"0", "1", "2", "3", "4", "5", "6", "7", "8", "9">>[n + 1]

RECURSIVE Decimal(_)
Decimal(n) == IF n < 10 THEN <<DigitChar(n)>> ELSE Append(Decimal(n \div 10), DigitChar(n % 10))

\* ss << std::fixed << std::setprecision(2) << fsize
Fixed2(fsize) ==
    LET h == Hundredths(fsize)
    IN  Decimal(h \div 100) \o <<".", DigitChar((h % 100) \div 10), DigitChar(h % 10)>>

\* Package::size2str, with the locals it ends with kept beside the text
size2str_run(size) ==
    LET end == size2str_loop(Float(ToFloat(size), 0), 0)
    IN  [fsize |-> end.fsize,
         currentunit |-> end.currentunit,
         str |-> Fixed2(end.fsize) \o <<" ">> \o units[end.currentunit + 1]]

size2str(size) == size2str_run(size).str

-----------------------------------------------------------------------------
(* The enumerations *)

UpdateStateEnum == {"USE_NOTINSTALLED", "USE_UPDATEAVAILABLE", "USE_UPTODATE"}

InstallReasonEnum == {"IRE_NOTINSTALLED", "IRE_EXPLICIT", "IRE_ASDEPS"}

\* the attributes getattr has a case for
AttributeEnum ==
    {"A_NAME", "A_VERSION", "A_URL", "A_REPO", "A_PACKAGER", "A_BUILDDATE",
     "A_INSTALLSTATE", "A_UPDATESTATE", "A_DESC", "A_ARCH", "A_LICENSES",
     "A_GROUPS", "A_DEPENDS", "A_OPTDEPENDS", "A_CONFLICTS", "A_PROVIDES",
     "A_REPLACES", "A_REQUIREDBY", "A_OPTIONALFOR", "A_SIGNATURE", "A_SIZE",
     "A_ISIZE", "A_NONE"}

\* an AttributeEnum variable holding a number that is no enumerator
A_OUTOFRANGE == "(AttributeEnum)-1"

AttributeArgs == AttributeEnum \cup {A_OUTOFRANGE}

\* the pending operations the controller tags a package with
OperationEnum == {"OE_NONE", "OE_INSTALL", "OE_REMOVE"}

\* a member no constructor statement has written yet
indeterminate == "indeterminate"

\* largest column index the view hands to setcolindex
MaxColIndex == 1

ColIndexes == 0..MaxColIndex

-----------------------------------------------------------------------------
(* libalpm: the data behind the handles, and the calls the constructor makes *)

AlpmReasons == {"ALPM_PKG_REASON_EXPLICIT", "ALPM_PKG_REASON_DEPEND", "ALPM_PKG_REASON_UNKNOWN"}

\* alpm_dep_compute_string: the name followed by the version constraint
alpm_dep_compute_string(depend) == depend.name \o depend.constraint

Dep(name, constraint) == [name |-> name, constraint |-> constraint]

\* the fields of a package other than its name and version, sparse: every
\* pointer is NULL, every list is empty, every count is 0
SparseMeta ==
    [url |-> NULL, packager |-> NULL, desc |-> NULL, dbname |-> NULL, arch |-> NULL,
     builddate |-> <<>>, size |-> <<>>, isize |-> <<>>,
     licenses |-> <<>>, groups |-> <<>>, optdepends |-> <<>>, conflicts |-> <<>>,
     provides |-> <<>>, replaces |-> <<>>, depends |-> <<>>, base64_sig |-> NULL]

\* the same fields, full: texts with blanks around and inside, lists of one and
\* two items, 1536 bytes to download and 2^30 + 1 bytes installed
FullMeta ==
    [url |-> Ptr(<<" ", "u">>), packager |-> Ptr(<<"p", "\n">>), desc |-> Ptr(<<"a", " ", "b">>),
     dbname |-> Ptr(<<"\t", "r", " ">>), arch |-> Ptr(<<"x">>),
     builddate |-> <<384, 84>>, size |-> <<512, 1>>, isize |-> <<1, 0, 0, 1>>,
     licenses |-> << <<"G">>, <<"M">> >>, groups |-> << <<"g">> >>,
     optdepends |-> << Dep(<<"o">>, <<>>), Dep(<<"q">>, <<">", "1">>) >>,
     conflicts |-> << Dep(<<"c">>, <<>>) >>, provides |-> <<>>,
     replaces |-> << Dep(<<"r">>, <<"<", "2">>) >>,
     depends |-> << Dep(<<"d">>, <<>>), Dep(<<"e">>, <<"=", "1">>) >>,
     base64_sig |-> Ptr(<<"s">>)]

NameSamples == {NULL, Ptr(<<"a">>), Ptr(<<" ", "a">>)}

VersionSamples == {NULL, Ptr(<<"1">>), Ptr(<<"2">>), Ptr(<<"\t", "2", "\n">>)}

\* every alpm_pkg_t the constructor is tried on: the full package "a" in every
\* version, and the sparse package under every name
Packages ==
    {[name |-> Ptr(<<"a">>), version |-> v, meta |-> FullMeta] : v \in VersionSamples}
    \cup {[name |-> n, version |-> Ptr(<<"2">>), meta |-> SparseMeta] : n \in NameSamples}

LocalVersionSamples == {NULL, Ptr(<<"1">>), Ptr(<<"2">>), Ptr(<<" ", "1">>)}

NoReverse == [requiredby |-> <<>>, optionalfor |-> <<>>]

SomeReverse == [requiredby |-> << <<"y">>, <<"z">> >>, optionalfor |-> << <<"w">> >>]

\* the packages a local database may hold: "a" explicitly installed in every
\* version, "a" in version 1 under the other reasons, and "b"
LocalPackages ==
    {[name |-> <<"a">>, version |-> v, reason |-> "ALPM_PKG_REASON_EXPLICIT",
      reverse |-> SomeReverse] : v \in LocalVersionSamples}
    \cup {[name |-> <<"a">>, version |-> Ptr(<<"1">>), reason |-> r, reverse |-> NoReverse] :
             r \in AlpmReasons}
    \cup {[name |-> <<"b">>, version |-> Ptr(<<"1">>),
           reason |-> "ALPM_PKG_REASON_DEPEND", reverse |-> SomeReverse]}

\* every alpm_db_t the constructor is tried on: empty, or holding one package
LocalDatabases == {{}} \cup {{l} : l \in LocalPackages}

alpm_pkg_get_name(_pkg) == _pkg.name

alpm_pkg_get_version(_pkg) == _pkg.version

alpm_pkg_get_reason(_pkg) == _pkg.reason

\* alpm_db_get_pkg: the package of that name, or NULL
alpm_db_get_pkg(db, name) ==
    IF IsNull(name) \/ ~\E l \in db : l.name = Deref(name) THEN NULL
    ELSE Ptr(CHOOSE l \in db : l.name = Deref(name))

alpm_pkg_compute_requiredby(_pkg) == _pkg.reverse.requiredby

alpm_pkg_compute_optionalfor(_pkg) == _pkg.reverse.optionalfor

\* alpm_pkg_vercmp is the library's: any sign may come back for two different
\* version strings, and 0 comes back for two equal ones
VercmpResults == {-1, 0, 1}

alpm_pkg_vercmp_returns(a, b, r) == r \in VercmpResults /\ (a = b => r = 0)

-----------------------------------------------------------------------------
(* Joining lists *)

RECURSIVE list2str_from(_, _, _)
list2str_from(l, delim, i) ==
    IF i > Len(l) THEN <<>>
    ELSE (IF i # 1 THEN delim ELSE <<>>) \o l[i] \o list2str_from(l, delim, i + 1)

\* Package::list2str
list2str(l, delim) == list2str_from(l, delim, 1)

RECURSIVE deplist2str_from(_, _, _)
deplist2str_from(l, delim, i) ==
    IF i > Len(l) THEN <<>>
    ELSE alpm_dep_compute_string(l[i]) \o (IF i < Len(l) THEN delim ELSE <<>>)
         \o deplist2str_from(l, delim, i + 1)

\* Package::deplist2str
deplist2str(l, delim) == deplist2str_from(l, delim, 1)

SPACE == <<" ">>

\* "\n            ", the delimiter of the optional dependencies
OPTDELIM == <<"\n", " ", " ", " ", " ", " ", " ", " ", " ", " ", " ", " ", " ">>

-----------------------------------------------------------------------------
(* The Package object *)

\* the object on entry to the constructor body: the std::string members are
\* empty, the other members hold whatever the storage held.  _colindex and op
\* are written by no constructor statement, so what they hold on entry is what
\* getcolindex and getop read until a setter runs.
PackageAtEntry(colindex, oe) ==
    [_name |-> <<>>, _url |-> <<>>, _packager |-> <<>>, _desc |-> <<>>,
     _version |-> <<>>, _dbname |-> <<>>, _arch |-> <<>>,
     _builddate |-> <<>>, _size |-> <<>>, _installsize |-> <<>>,
     _sizestr |-> <<>>, _installsizestr |-> <<>>,
     _licenses |-> <<>>, _groups |-> <<>>, _optdepends |-> <<>>,
     _conflicts |-> <<>>, _provides |-> <<>>, _replaces |-> <<>>,
     _depends |-> <<>>, _signature |-> <<>>,
     _localversion |-> <<>>, _updatestate |-> indeterminate,
     _requiredby |-> <<>>, _optionalfor |-> <<>>, _reason |-> indeterminate,
     _colindex |-> colindex, op |-> oe]

\* the local _localpkg of the constructor (line 36)
_localpkg == alpm_db_get_pkg(localdb, alpm_pkg_get_name(pkg))

YES == <<"Y", "e", "s">>

NONE == <<"N", "o", "n", "e">>

\* lines 35-63: the fields copied or derived from the package handle
CtorFields ==
    /\ pc = "ctor_35"
    /\ p' = [p EXCEPT
             !._name = trimstr(alpm_pkg_get_name(pkg)),
             !._url = trimstr(pkg.meta.url),
             !._packager = trimstr(pkg.meta.packager),
             !._desc = trimstr(pkg.meta.desc),
             !._version = trimstr(alpm_pkg_get_version(pkg)),
             !._dbname = trimstr(pkg.meta.dbname),
             !._builddate = pkg.meta.builddate,
             !._arch = trimstr(pkg.meta.arch),
             !._size = pkg.meta.size,
             !._installsize = pkg.meta.isize,
             !._sizestr = size2str(pkg.meta.size),
             !._installsizestr = size2str(pkg.meta.isize),
             !._licenses = list2str(pkg.meta.licenses, SPACE),
             !._groups = list2str(pkg.meta.groups, SPACE),
             !._optdepends = deplist2str(pkg.meta.optdepends, OPTDELIM),
             !._conflicts = deplist2str(pkg.meta.conflicts, SPACE),
             !._provides = deplist2str(pkg.meta.provides, SPACE),
             !._replaces = deplist2str(pkg.meta.replaces, SPACE),
             !._depends = deplist2str(pkg.meta.depends, SPACE),
             !._signature = IF ~IsNull(pkg.meta.base64_sig) THEN YES ELSE NONE]
    /\ pc' = "ctor_65"
    /\ UNCHANGED <<pkg, localdb, vc, held, events, built, arg, ret>>

\* the branch of line 65 with its assignment lost: _updatestate is never written
CtorNotInstalled_unset ==
    /\ pc = "ctor_65"
    /\ IsNull(_localpkg)
    /\ pc' = "ctor_81"
    /\ UNCHANGED <<pkg, localdb, p, vc, held, events, built, arg, ret>>

\* lines 65-66: no local package of that name
CtorNotInstalled ==
    /\ pc = "ctor_65"
    /\ IsNull(_localpkg)
    /\ p' = [p EXCEPT !._updatestate = "USE_NOTINSTALLED"]
    /\ pc' = "ctor_81"
    /\ UNCHANGED <<pkg, localdb, vc, held, events, built, arg, ret>>

\* what operator=(const char *) may leave in _localversion when handed NULL
GarbageText == {<<>>, <<"\n">>}

\* a slip in the comparison: >= for >, equal versions count as an update
UpdateStateOf_ge(r) == IF r >= 0 THEN "USE_UPDATEAVAILABLE" ELSE "USE_UPTODATE"

\* the ternary of lines 69-70
UpdateStateOf(r) == IF r > 0 THEN "USE_UPDATEAVAILABLE" ELSE "USE_UPTODATE"

\* lines 68-70: the local version is stored as the library gave it, and the
\* stored versions are compared.  Assigning a null pointer to a std::string is
\* undefined: the build may stop in strlen, or go on with any text.
CtorLocalVersion ==
    /\ pc = "ctor_65"
    /\ ~IsNull(_localpkg)
    /\ LET c == alpm_pkg_get_version(Deref(_localpkg))
       IN  \/ /\ IsNull(c)
              /\ pc' = "crashed"
              /\ UNCHANGED <<p, vc>>
           \/ /\ \E text \in (IF IsNull(c) THEN GarbageText ELSE {Deref(c)}) :
                 \E r \in VercmpResults :
                    /\ alpm_pkg_vercmp_returns(p._version, text, r)
                    /\ vc' = <<r>>
                    /\ p' = [p EXCEPT !._localversion = text,
                                      !._updatestate = UpdateStateOf(r)]
              /\ pc' = "ctor_72"
    /\ UNCHANGED <<pkg, localdb, held, events, built, arg, ret>>

List(which, items) == [list |-> which, items |-> items]

HeldList(which) == CHOOSE l \in held : l.list = which

\* line 72: alpm_pkg_compute_requiredby allocates a list
CtorComputeRequiredBy ==
    /\ pc = "ctor_72"
    /\ held' = held \cup {List("requiredby", alpm_pkg_compute_requiredby(Deref(_localpkg)))}
    /\ events' = Append(events, <<"compute", "requiredby">>)
    /\ pc' = "ctor_73"
    /\ UNCHANGED <<pkg, localdb, p, vc, built, arg, ret>>

\* line 73
CtorJoinRequiredBy ==
    /\ pc = "ctor_73"
    /\ p' = [p EXCEPT !._requiredby = list2str(HeldList("requiredby").items, SPACE)]
    /\ events' = Append(events, <<"list2str", "requiredby">>)
    /\ pc' = "ctor_74"
    /\ UNCHANGED <<pkg, localdb, vc, held, built, arg, ret>>

\* line 74 lost: the required-by list is never freed
CtorFreeRequiredBy_leak ==
    /\ pc = "ctor_74"
    /\ pc' = "ctor_76"
    /\ UNCHANGED <<pkg, localdb, p, vc, held, events, built, arg, ret>>

\* line 74: alpm_list_free
CtorFreeRequiredBy ==
    /\ pc = "ctor_74"
    /\ held' = held \ {HeldList("requiredby")}
    /\ events' = Append(events, <<"free", "requiredby">>)
    /\ pc' = "ctor_76"
    /\ UNCHANGED <<pkg, localdb, p, vc, built, arg, ret>>

\* line 76: alpm_pkg_compute_optionalfor allocates a list
CtorComputeOptionalFor ==
    /\ pc = "ctor_76"
    /\ held' = held \cup {List("optionalfor", alpm_pkg_compute_optionalfor(Deref(_localpkg)))}
    /\ events' = Append(events, <<"compute", "optionalfor">>)
    /\ pc' = "ctor_77"
    /\ UNCHANGED <<pkg, localdb, p, vc, built, arg, ret>>

\* line 77
CtorJoinOptionalFor ==
    /\ pc = "ctor_77"
    /\ p' = [p EXCEPT !._optionalfor = list2str(HeldList("optionalfor").items, SPACE)]
    /\ events' = Append(events, <<"list2str", "optionalfor">>)
    /\ pc' = "ctor_78"
    /\ UNCHANGED <<pkg, localdb, vc, held, built, arg, ret>>

\* line 78: alpm_list_free
CtorFreeOptionalFor ==
    /\ pc = "ctor_78"
    /\ held' = held \ {HeldList("optionalfor")}
    /\ events' = Append(events, <<"free", "optionalfor">>)
    /\ pc' = "ctor_81"
    /\ UNCHANGED <<pkg, localdb, p, vc, built, arg, ret>>

\* a slip in the constant compared with: the explicit packages become the
\* dependencies
ReasonOf_explicit(lp) ==
    IF IsNull(lp) THEN "IRE_NOTINSTALLED"
    ELSE IF alpm_pkg_get_reason(Deref(lp)) = "ALPM_PKG_REASON_EXPLICIT" THEN "IRE_ASDEPS"
    ELSE "IRE_EXPLICIT"

\* the nested ternary of lines 81-83
ReasonOf(lp) ==
    IF IsNull(lp) THEN "IRE_NOTINSTALLED"
    ELSE IF alpm_pkg_get_reason(Deref(lp)) = "ALPM_PKG_REASON_DEPEND" THEN "IRE_ASDEPS"
    ELSE "IRE_EXPLICIT"

\* the members neither setcolindex nor setop is meant to write
Annotations == {"_colindex", "op"}

Data(o) == [f \in (DOMAIN o) \ Annotations |-> o[f]]

\* lines 81-84: the install reason; the constructor returns
CtorReason ==
    /\ pc = "ctor_81"
    /\ p' = [p EXCEPT !._reason = ReasonOf(_localpkg)]
    /\ built' = Data(p')
    /\ pc' = "built"
    /\ UNCHANGED <<pkg, localdb, vc, held, events, arg, ret>>

Constructor ==
    \/ CtorFields
    \/ CtorNotInstalled
    \/ CtorLocalVersion
    \/ CtorComputeRequiredBy
    \/ CtorJoinRequiredBy
    \/ CtorFreeRequiredBy
    \/ CtorComputeOptionalFor
    \/ CtorJoinOptionalFor
    \/ CtorFreeOptionalFor
    \/ CtorReason

-----------------------------------------------------------------------------
(* The accessors.  Each yields an outcome: the value returned, or the       *)
(* message of the PcursesException thrown.                                  *)

Ok(v) == [throws |-> "none", val |-> v]

Throw(what) == [throws |-> what, val |-> <<>>]

getname(o) == Ok(o._name)

getdesc(o) == Ok(o._desc)

LOCAL_OPEN == <<" ", "(", "l", "o", "c", "a", "l", ":", " ">>

LOCAL_CLOSE == <<")">>

\* a slip in the state tested: the local version is shown when up to date
getversion_uptodate(o) ==
    IF o._updatestate = "USE_UPTODATE"
    THEN Ok(o._version \o LOCAL_OPEN \o o._localversion \o LOCAL_CLOSE)
    ELSE Ok(o._version)

\* Package::getversion
getversion(o) ==
    IF o._updatestate = "USE_UPDATEAVAILABLE"
    THEN Ok(o._version \o LOCAL_OPEN \o o._localversion \o LOCAL_CLOSE)
    ELSE Ok(o._version)

getrepo(o) == Ok(o._dbname)

\* Package::getreason
getreason(o) ==
    CASE o._reason = "IRE_NOTINSTALLED" -> Ok(<<"n", "o", "t", " ", "i", "n", "s", "t", "a", "l", "l", "e", "d">>)
      [] o._reason = "IRE_EXPLICIT" -> Ok(<<"e", "x", "p", "l", "i", "c", "i", "t">>)
      [] o._reason = "IRE_ASDEPS" -> Ok(<<"a", "s", " ", "d", "e", "p", "e", "n", "d", "e", "n", "c", "y">>)
      [] OTHER -> Throw("no package install reason.")

getpackager(o) == Ok(o._packager)

geturl(o) == Ok(o._url)

\* std::ctime for the two build dates of the samples, in UTC.  The text is the
\* C library's and depends on the time zone; it always ends in a newline.
ctime(t) ==
    IF t = <<>> THEN <<"T", "h", "u", " ", "J", "a", "n", " ", " ", "1", " ", "0", "0", ":", "0", "0", ":", "0", "0", " ", "1", "9", "7", "0", "\n">>
    ELSE <<"F", "r", "i", " ", "J", "a", "n", " ", " ", "2", " ", "0", "0", ":", "0", "0", ":", "0", "0", " ", "1", "9", "7", "0", "\n">>

\* Package::getbuilddate
getbuilddate(o) ==
    LET timestr == ctime(o._builddate)
    IN  Ok(substr(timestr, 1, Len(timestr) - 1))

getarch(o) == Ok(o._arch)

getlicenses(o) == Ok(o._licenses)

getgroups(o) == Ok(o._groups)

getdepends(o) == Ok(o._depends)

getoptdepends(o) == Ok(o._optdepends)

getconflicts(o) == Ok(o._conflicts)

getprovides(o) == Ok(o._provides)

getreplaces(o) == Ok(o._replaces)

getrequiredby(o) == Ok(o._requiredby)

getoptionalfor(o) == Ok(o._optionalfor)

getsignature(o) == Ok(o._signature)

getsize(o) == Ok(o._sizestr)

getisize(o) == Ok(o._installsizestr)

\* Package::getupdatestate
getupdatestate(o) ==
    CASE o._updatestate = "USE_NOTINSTALLED" -> Ok(<<"n", "o", "t", " ", "i", "n", "s", "t", "a", "l", "l", "e", "d">>)
      [] o._updatestate = "USE_UPDATEAVAILABLE" -> Ok(<<"u", "p", "d", "a", "t", "e", " ", "a", "v", "a", "i", "l", "a", "b", "l", "e">>)
      [] o._updatestate = "USE_UPTODATE" -> Ok(<<"u", "p", " ", "t", "o", " ", "d", "a", "t", "e">>)
      [] OTHER -> Throw("no package update state.")

\* Package::getattr
getattr(o, attr) ==
    CASE attr = "A_NAME" -> getname(o)
      [] attr = "A_VERSION" -> getversion(o)
      [] attr = "A_URL" -> geturl(o)
      [] attr = "A_REPO" -> getrepo(o)
      [] attr = "A_PACKAGER" -> getpackager(o)
      [] attr = "A_BUILDDATE" -> getbuilddate(o)
      [] attr = "A_INSTALLSTATE" -> getreason(o)
      [] attr = "A_UPDATESTATE" -> getupdatestate(o)
      [] attr = "A_DESC" -> getdesc(o)
      [] attr = "A_ARCH" -> getarch(o)
      [] attr = "A_LICENSES" -> getlicenses(o)
      [] attr = "A_GROUPS" -> getgroups(o)
      [] attr = "A_DEPENDS" -> getdepends(o)
      [] attr = "A_OPTDEPENDS" -> getoptdepends(o)
      [] attr = "A_CONFLICTS" -> getconflicts(o)
      [] attr = "A_PROVIDES" -> getprovides(o)
      [] attr = "A_REPLACES" -> getreplaces(o)
      [] attr = "A_REQUIREDBY" -> getrequiredby(o)
      [] attr = "A_OPTIONALFOR" -> getoptionalfor(o)
      [] attr = "A_SIGNATURE" -> getsignature(o)
      [] attr = "A_SIZE" -> getsize(o)
      [] attr = "A_ISIZE" -> getisize(o)
      [] attr = "A_NONE" -> Ok(<<>>)
      [] OTHER -> Throw("Invalid attribute passed.")

\* a slip in the default branch: 0 comes back for an attribute with no number
getoffattr_zero(o, attr) ==
    CASE attr = "A_BUILDDATE" -> Ok(o._builddate)
      [] attr = "A_SIZE" -> Ok(o._size)
      [] attr = "A_ISIZE" -> Ok(o._installsize)
      [] OTHER -> Ok(<<>>)

\* Package::getoffattr; time_t and off_t are both 64 bits, the cast of line
\* 212 changes nothing
getoffattr(o, attr) ==
    CASE attr = "A_BUILDDATE" -> Ok(o._builddate)
      [] attr = "A_SIZE" -> Ok(o._size)
      [] attr = "A_ISIZE" -> Ok(o._installsize)
      [] OTHER -> Throw("Invalid attribute passed.")

getcolindex(o) == Ok(o._colindex)

getop(o) == Ok(o.op)

-----------------------------------------------------------------------------
(* Calls on a constructed Package *)

\* the record of a call: which, on what argument, and its outcome
Call(name, a, outcome) ==
    [call |-> name, arg |-> a, throws |-> outcome.throws, val |-> outcome.val]

NoCall == Call("none", <<>>, Ok(<<>>))

SetColIndex(index) ==
    /\ pc = "built"
    /\ p' = [p EXCEPT !._colindex = index]
    /\ ret' = Call("setcolindex", index, Ok(<<>>))
    /\ UNCHANGED <<pc, pkg, localdb, vc, held, events, built, arg>>

\* a setop that also resets the column index
SetOp_clobber(oe) ==
    /\ pc = "built"
    /\ p' = [p EXCEPT !.op = oe, !._colindex = 0]
    /\ ret' = Call("setop", oe, Ok(<<>>))
    /\ UNCHANGED <<pc, pkg, localdb, vc, held, events, built, arg>>

SetOp(oe) ==
    /\ pc = "built"
    /\ p' = [p EXCEPT !.op = oe]
    /\ ret' = Call("setop", oe, Ok(<<>>))
    /\ UNCHANGED <<pc, pkg, localdb, vc, held, events, built, arg>>

GetColIndex ==
    /\ pc = "built"
    /\ ret' = Call("getcolindex", <<>>, getcolindex(p))
    /\ UNCHANGED <<pc, pkg, localdb, p, vc, held, events, built, arg>>

GetOp ==
    /\ pc = "built"
    /\ ret' = Call("getop", <<>>, getop(p))
    /\ UNCHANGED <<pc, pkg, localdb, p, vc, held, events, built, arg>>

GetAttr(attr) ==
    /\ pc = "built"
    /\ ret' = Call("getattr", attr, getattr(p, attr))
    /\ UNCHANGED <<pc, pkg, localdb, p, vc, held, events, built, arg>>

GetOffAttr(attr) ==
    /\ pc = "built"
    /\ ret' = Call("getoffattr", attr, getoffattr(p, attr))
    /\ UNCHANGED <<pc, pkg, localdb, p, vc, held, events, built, arg>>

GetVersion ==
    /\ pc = "built"
    /\ ret' = Call("getversion", <<>>, getversion(p))
    /\ UNCHANGED <<pc, pkg, localdb, p, vc, held, events, built, arg>>

GetReason ==
    /\ pc = "built"
    /\ ret' = Call("getreason", <<>>, getreason(p))
    /\ UNCHANGED <<pc, pkg, localdb, p, vc, held, events, built, arg>>

GetUpdateState ==
    /\ pc = "built"
    /\ ret' = Call("getupdatestate", <<>>, getupdatestate(p))
    /\ UNCHANGED <<pc, pkg, localdb, p, vc, held, events, built, arg>>

Init ==
    /\ pc = "ctor_35"
    /\ pkg \in Packages
    /\ localdb \in LocalDatabases
    /\ p \in {PackageAtEntry(c, oe) : c \in ColIndexes, oe \in OperationEnum}
    /\ vc = <<>>
    /\ held = {}
    /\ events = <<>>
    /\ built = <<>>
    /\ arg = <<>>
    /\ ret = NoCall

Next ==
    \/ Constructor
    \/ \E index \in ColIndexes : SetColIndex(index)
    \/ \E oe \in OperationEnum : SetOp(oe)
    \/ GetColIndex
    \/ GetOp
    \/ \E attr \in AttributeArgs : GetAttr(attr)
    \/ \E attr \in AttributeArgs : GetOffAttr(attr)
    \/ GetVersion
    \/ GetReason
    \/ GetUpdateState

Spec == Init /\ [][Next]_vars

-----------------------------------------------------------------------------
(* trimstr on its own: one call on any text, then one on what it returned *)

\* what the variables of the Package hold while a helper runs on its own
NoPackage ==
    /\ pkg = <<>>
    /\ localdb = {}
    /\ p = <<>>
    /\ vc = <<>>
    /\ held = {}
    /\ events = <<>>
    /\ built = <<>>

TrimCall ==
    /\ pc = "trimstr"
    /\ ret' = Call("trimstr", arg, Ok(trimstr(arg)))
    /\ pc' = "trimstr_returned"
    /\ UNCHANGED <<pkg, localdb, p, vc, held, events, built, arg>>

\* trimstr(s.c_str()) on the string s the first call returned
TrimAgain ==
    /\ pc = "trimstr_returned"
    /\ arg' = Ptr(ret.val)
    /\ ret' = Call("trimstr", arg', Ok(trimstr(arg')))
    /\ pc' = "trimstr_again"
    /\ UNCHANGED <<pkg, localdb, p, vc, held, events, built>>

InitTrim ==
    /\ pc = "trimstr"
    /\ arg \in CStrings
    /\ ret = NoCall
    /\ NoPackage

NextTrim == TrimCall \/ TrimAgain

SpecTrim == InitTrim /\ [][NextTrim]_vars

-----------------------------------------------------------------------------
(* size2str on its own *)

\* the digits the byte counts are made of
DigitSamples == {0, 1, 2, 8, HalfK, K - 1}

\* most base-1024 digits of a byte count: below 1024^MaxDigits
MaxDigits == 5

RECURSIVE CountsUpTo(_)
CountsUpTo(n) ==
    IF n = 0 THEN {<<>>}
    ELSE LET shorter == CountsUpTo(n - 1)
         IN  shorter \cup {Append(d, c) : d \in {t \in shorter : Len(t) = n - 1}, c \in DigitSamples}

\* every off_t size2str is tried on: no high zero digit
Sizes == {d \in CountsUpTo(MaxDigits) : Norm(d) = d}

Size2strCall ==
    /\ pc = "size2str"
    /\ ret' = Call("size2str", arg, Ok(size2str_run(arg)))
    /\ pc' = "size2str_returned"
    /\ UNCHANGED <<pkg, localdb, p, vc, held, events, built, arg>>

InitSize ==
    /\ pc = "size2str"
    /\ arg \in Sizes
    /\ ret = NoCall
    /\ NoPackage

NextSize == Size2strCall

SpecSize == InitSize /\ [][NextSize]_vars

-----------------------------------------------------------------------------
(* Claims about the helpers *)

AllWhitespace(s) == \A i \in 1..Len(s) : s[i] \in Whitespace

Trimmed(s) == s = <<>> \/ (s[1] \notin Whitespace /\ s[Len(s)] \notin Whitespace)

\* out is s without its longest leading and trailing runs of whitespace
IsTrimOf(out, s) ==
    \E i \in 1..Len(s) : \E j \in i..Len(s) :
        /\ s[i] \notin Whitespace
        /\ s[j] \notin Whitespace
        /\ \A k \in 1..Len(s) : (k < i \/ k > j) => s[k] \in Whitespace
        /\ out = [k \in 1..(j - i + 1) |-> s[i + k - 1]]

\* C8: trimstr yields the empty string for NULL and for a text of only spaces,
\* tabs and newlines; for any other text it yields the text without its longest
\* leading and trailing runs of them, the characters between unchanged; the
\* result neither starts nor ends with one, and trimming it again changes nothing.
C8_Trimstr ==
    /\ pc = "trimstr_returned" =>
          /\ ret.throws = "none"
          /\ IF IsNull(arg) \/ AllWhitespace(Deref(arg))
             THEN ret.val = <<>>
             ELSE IsTrimOf(ret.val, Deref(arg))
          /\ Trimmed(ret.val)
    /\ pc = "trimstr_again" => ret.val = Deref(arg) /\ Trimmed(ret.val)

\* a text with whitespace before, inside and nowhere after was trimmed, and
\* trimmed again
C8_Witness ==
    /\ pc = "trimstr_again"
    /\ ret.val = <<"a", " ", "b">>
    /\ arg = Ptr(<<"a", " ", "b">>)

\* the smallest unit index k of 0..4 with d / 1024^k <= 1024, or 4 if none
SmallestUnit(d) ==
    LET fits == {k \in 0..(unitssize - 1) : ~GreaterThanPow(d, k + 1)}
    IN  IF fits = {} THEN unitssize - 1 ELSE CHOOSE k \in fits : \A j \in fits : k <= j

\* d / 1024^k to two decimals, a space, and the k-th label
Rendered(d, k) == Fixed2(Float(d, k)) \o <<" ">> \o units[k + 1]

\* d >= 1024^j
AtLeastPow(d, j) == GreaterThanPow(d, j) \/ d = PowK(j)

\* d < 2^24: a count a float holds exactly
BelowFloatBits(d) ==
    \/ Len(d) < 3
    \/ Len(d) = 3 /\ d[3] < Pow2(FloatBits - 2 * DigitBits)

\* the results the claim lists, which do not depend on how b is rounded
C5_Examples ==
    /\ arg = <<>> => ret.val.str = <<"0", ".", "0", "0", " ", "B">>
    /\ arg = <<HalfK, 1>> => ret.val.str = <<"1", ".", "5", "0", " ", "K", "B">>
    /\ arg = <<0, 0, 2>> => ret.val.str = <<"2", ".", "0", "0", " ", "M", "B">>
    /\ arg = PowK(1) => ret.val.currentunit = 0
    /\ ret.val.currentunit \in 0..4

-----------------------------------------------------------------------------
(* Claims about the Package *)

\* the local database has a package of the name the handle gives
HasLocal == \E l \in localdb : Ptr(l.name) = pkg.name

TheLocal == CHOOSE l \in localdb : Ptr(l.name) = pkg.name

\* C1: a constructed Package is NotInstalled if the local database has no
\* package of that name; with one, it is UpToDate if the version it holds
\* equals the local version it holds, and UpdateAvailable if the version
\* comparison of the two came back greater than 0; no other state is produced.
C1_UpdateState ==
    pc = "built" =>
        /\ p._updatestate \in UpdateStateEnum
        /\ ~HasLocal => p._updatestate = "USE_NOTINSTALLED"
        /\ HasLocal /\ p._version = p._localversion => p._updatestate = "USE_UPTODATE"
        /\ HasLocal /\ vc # <<>> /\ vc[1] > 0 => p._updatestate = "USE_UPDATEAVAILABLE"

\* an installed package was built whose comparison came back greater than 0
C1_Witness ==
    /\ pc = "built"
    /\ HasLocal
    /\ vc = <<1>>
    /\ p._updatestate = "USE_UPDATEAVAILABLE"

\* C2: the install reason of a constructed Package is NotInstalled exactly when
\* the local database has no package of that name; with one, it is AsDependency
\* exactly when the recorded reason is "dependency", and Explicit otherwise.
C2_Reason ==
    pc = "built" =>
        /\ p._reason = "IRE_NOTINSTALLED" <=> ~HasLocal
        /\ HasLocal =>
              /\ p._reason = "IRE_ASDEPS" <=> TheLocal.reason = "ALPM_PKG_REASON_DEPEND"
              /\ TheLocal.reason # "ALPM_PKG_REASON_DEPEND" => p._reason = "IRE_EXPLICIT"

\* an installed package with a reason that is neither explicit nor dependency
C2_Witness ==
    /\ pc = "built"
    /\ HasLocal
    /\ TheLocal.reason = "ALPM_PKG_REASON_UNKNOWN"
    /\ p._reason = "IRE_EXPLICIT"

WithLocal(o) == o._version \o <<" ", "(", "l", "o", "c", "a", "l", ":", " ">> \o o._localversion \o <<")">>

\* C3: getversion, and getattr(A_VERSION), return the version followed by
\* " (local: <localversion>)" exactly when the state is UpdateAvailable, and the
\* bare version in the other states, whatever setcolindex and setop did before.
C3_Version ==
    (ret.call = "getversion" \/ (ret.call = "getattr" /\ ret.arg = "A_VERSION")) =>
        /\ ret.throws = "none"
        /\ p._updatestate = "USE_UPDATEAVAILABLE" => ret.val = WithLocal(p)
        /\ p._updatestate # "USE_UPDATEAVAILABLE" => ret.val = p._version
        /\ ret.val = WithLocal(p) <=> p._updatestate = "USE_UPDATEAVAILABLE"

\* getattr(A_VERSION) was called on a package with an update, after setop
C3_Witness ==
    /\ ret.call = "getattr"
    /\ ret.arg = "A_VERSION"
    /\ p._updatestate = "USE_UPDATEAVAILABLE"
    /\ p.op = "OE_REMOVE"
    /\ ret.val = <<"2", " ", "(", "l", "o", "c", "a", "l", ":", " ", " ", "1", ")">>

NumericAttributes == {"A_BUILDDATE", "A_SIZE", "A_ISIZE"}

InvalidAttribute == "Invalid attribute passed."

\* the number the handle gives for a numeric attribute
NumberOf(attr) ==
    CASE attr = "A_BUILDDATE" -> pkg.meta.builddate
      [] attr = "A_SIZE" -> pkg.meta.size
      [] attr = "A_ISIZE" -> pkg.meta.isize

C4_Step ==
    /\ ret'.call = "getattr" /\ ret'.arg = "A_NONE" =>
          ret'.throws = "none" /\ ret'.val = <<>>
    /\ ret'.call = "getattr" /\ ret'.arg \notin AttributeEnum =>
          ret'.throws = InvalidAttribute
    /\ ret'.call = "getoffattr" /\ ret'.arg \in NumericAttributes =>
          ret'.throws = "none" /\ ret'.val = NumberOf(ret'.arg)
    /\ ret'.call = "getoffattr" /\ ret'.arg \notin NumericAttributes =>
          ret'.throws = InvalidAttribute
    /\ ret'.throws # "none" => p' = p

\* C4: getattr(A_NONE) returns the empty string and raises nothing; getattr of
\* a value outside the enumeration raises the invalid-attribute error;
\* getoffattr returns the number for the build date, the size and the installed
\* size and raises the invalid-attribute error for every other attribute; a
\* call that raises leaves every field as it was.
C4_Dispatch == [][C4_Step]_vars

\* getoffattr(A_NAME) raised
C4_Witness ==
    /\ ret.call = "getoffattr"
    /\ ret.arg = "A_NAME"
    /\ ret.throws = InvalidAttribute

StringFields ==
    {"_name", "_url", "_packager", "_desc", "_version", "_localversion", "_dbname",
     "_arch", "_licenses", "_groups", "_optdepends", "_conflicts", "_provides",
     "_replaces", "_depends", "_requiredby", "_optionalfor"}

\* C6: once a Package is constructed, and whatever setcolindex and setop do,
\* every string field is free of leading and trailing whitespace, and a NULL
\* from the library, the local package's version included, is stored as the
\* empty string, so that the construction ends with an object.
C6_StringFields ==
    /\ pc = "built" =>
          /\ \A f \in StringFields : Trimmed(p[f])
          /\ IsNull(pkg.name) => p._name = <<>>
          /\ IsNull(pkg.version) => p._version = <<>>
          /\ IsNull(pkg.meta.url) => p._url = <<>>
          /\ HasLocal /\ IsNull(TheLocal.version) => p._localversion = <<>>
    /\ pc # "crashed"

Accessors == {"getattr", "getoffattr", "getversion", "getreason", "getupdatestate"}

\* what the accessor of the recorded call yields on the object o
Replay(call, o) ==
    CASE call.call = "getattr" -> getattr(o, call.arg)
      [] call.call = "getoffattr" -> getoffattr(o, call.arg)
      [] call.call = "getversion" -> getversion(o)
      [] call.call = "getreason" -> getreason(o)
      [] call.call = "getupdatestate" -> getupdatestate(o)

C7_Step ==
    pc = "built" =>
        /\ Data(p') = Data(p)
        /\ ret'.call = "setcolindex" => p'._colindex = ret'.arg /\ p'.op = p.op
        /\ ret'.call = "setop" => p'.op = ret'.arg /\ p'._colindex = p._colindex
        /\ ret'.call \notin {"setcolindex", "setop"} => p' = p

C7_State ==
    pc = "built" =>
        /\ Data(p) = built
        /\ ret.call \in Accessors =>
              Replay(ret, built) = [throws |-> ret.throws, val |-> ret.val]

\* C7: setcolindex changes the column index and nothing else, setop changes the
\* operation tag and nothing else, no accessor changes any field; so every
\* field but these two stays as the constructor left it, and every accessor
\* but getcolindex and getop returns what it returns right after construction.
C7_Immutable == [](C7_State) /\ [][C7_Step]_vars

\* setop has tagged a package that has reverse dependencies
C7_Witness ==
    /\ pc = "built"
    /\ ret.call = "setop"
    /\ p.op = "OE_INSTALL"
    /\ p._requiredby = <<"y", " ", "z">>
    /\ Data(p) = built

Positions(e) == {i \in 1..Len(events) : events[i] = e}

Before(e1, e2) == \A i \in Positions(e2) : \E j \in Positions(e1) : j < i

ReverseLists == {"requiredby", "optionalfor"}

\* C9: with no local package the constructor acquires no reverse-dependency
\* list and leaves the required-by and optional-for fields empty; with one it
\* acquires each of the two lists once, frees each once and only after joining
\* it, frees the required-by list before it acquires the optional-for list,
\* and holds no list when it ends.
C9_Lists ==
    /\ \A w \in ReverseLists :
          /\ Cardinality(Positions(<<"compute", w>>)) <= 1
          /\ Cardinality(Positions(<<"list2str", w>>)) <= 1
          /\ Cardinality(Positions(<<"free", w>>)) <= 1
          /\ Before(<<"compute", w>>, <<"list2str", w>>)
          /\ Before(<<"list2str", w>>, <<"free", w>>)
          /\ (\E l \in held : l.list = w) <=>
                Positions(<<"compute", w>>) # {} /\ Positions(<<"free", w>>) = {}
    /\ Before(<<"free", "requiredby">>, <<"compute", "optionalfor">>)
    /\ pc \in {"built", "crashed"} => held = {}
    /\ pc = "built" /\ ~HasLocal =>
          events = <<>> /\ p._requiredby = <<>> /\ p._optionalfor = <<>>
    /\ pc = "built" /\ HasLocal =>
          \A w \in ReverseLists :
              /\ Cardinality(Positions(<<"compute", w>>)) = 1
              /\ Cardinality(Positions(<<"free", w>>)) = 1

\* a package with reverse dependencies was built
C9_Witness ==
    /\ pc = "built"
    /\ HasLocal
    /\ Len(events) = 6
    /\ p._requiredby = <<"y", " ", "z">>
    /\ p._optionalfor = <<"w">>

ReasonLabel(r) ==
    CASE r = "IRE_NOTINSTALLED" -> <<"n", "o", "t", " ", "i", "n", "s", "t", "a", "l", "l", "e", "d">>
      [] r = "IRE_EXPLICIT" -> <<"e", "x", "p", "l", "i", "c", "i", "t">>
      [] r = "IRE_ASDEPS" -> <<"a", "s", " ", "d", "e", "p", "e", "n", "d", "e", "n", "c", "y">>

UpdateStateLabel(u) ==
    CASE u = "USE_NOTINSTALLED" -> <<"n", "o", "t", " ", "i", "n", "s", "t", "a", "l", "l", "e", "d">>
      [] u = "USE_UPDATEAVAILABLE" -> <<"u", "p", "d", "a", "t", "e", " ", "a", "v", "a", "i", "l", "a", "b", "l", "e">>
      [] u = "USE_UPTODATE" -> <<"u", "p", " ", "t", "o", " ", "d", "a", "t", "e">>

====
